---- MODULE Spec2Model ----
(***************************************************************************)
(* A model of the ffmpeg-video-decoder crate: VideoDecoder::new,           *)
(* next_frame, skip, loop_ctx and Drop (src/src/decoder.rs).               *)
(*                                                                         *)
(* The external decoding engine is modelled by its contract as the code    *)
(* uses it: the demuxer hands out the packets of the container in order    *)
(* and fails every read once they are used up, until it is seeked back to  *)
(* the start; the codec context keeps the frames submitted to it and       *)
(* hands one out per avcodec_receive_frame call while it holds more than   *)
(* its reorder delay.                                                      *)
(***************************************************************************)
EXTENDS Integers, Sequences, FiniteSets, TLC

\* ---------------------------------------------------------------- bounds
MaxPackets == 2          \* packets in a container
MaxFramesPerPacket == 2  \* frames one packet decodes into
MaxDelay == 1            \* frames the codec holds back (reorder delay)
MaxSkip == 2             \* |n| of the skip calls tried
MaxHeld == 2             \* frames left inside the codec context

\* ------------------------------------------------------ program constants
BUFFER_ALIGNMENT == 32
ISIZE_MAX == 2147483647  \* isize::MAX (32-bit target)
BUFFER_SIZE == 8192      \* size of the engine's I/O buffer, and of its read requests

\* ------------------------------------------------------------ input sets
Widths == {10, 32}
Heights == {2}
SourceKinds == {"Filesystem", "Raw"}
\* stream lists of a container: type and rational frame rate of each stream
StreamLists ==
  { <<[type |-> "video", rate |-> <<30, 1>>]>>,
    <<[type |-> "audio", rate |-> <<0, 0>>], [type |-> "video", rate |-> <<30, 1>>]>>,
    <<[type |-> "audio", rate |-> <<0, 0>>]>> }

\* a packet: the stream it belongs to (0-based), the frames coded in it, and
\* whether the codec accepts it
PacketsOf(streams) ==
  { [stream |-> s, frames |-> f, ok |-> TRUE] :
      s \in {i \in 0..(Len(streams) - 1) : streams[i + 1].type = "video"},
      f \in 1..MaxFramesPerPacket }
  \cup { [stream |-> s, frames |-> 1, ok |-> FALSE] :
      s \in {i \in 0..(Len(streams) - 1) : streams[i + 1].type = "video"} }
  \cup { [stream |-> s, frames |-> 1, ok |-> TRUE] :
      s \in {i \in 0..(Len(streams) - 1) : streams[i + 1].type # "video"} }

\* bytes of an in-memory source: the container header, and every packet
HeaderBytes == 100
PacketBytes == 10000
DataLength(packets) == HeaderBytes + PacketBytes * Len(packets)

SeqsUpTo(S, n) == UNION { [1..k -> S] : k \in 0..n }

VARIABLES
  phase,       \* "none" | "ready" | "failed" | "panicked" | "crashed" | "diverged" | "dropped"
  input,       \* the source handed to new and what the engine finds in it
  newResult,   \* what VideoDecoder::new returned: "none" | "Ok" | an error kind
  steps,       \* setup steps new has executed, in order
  framerate, dimensions, buffer, should_loop, index,   \* VideoDecoder fields
  texture_data,                                        \* its length in bytes
  stream_id,
  pos,         \* packets the demuxer has handed out since the last seek to the start
  held,        \* frames inside the codec context
  live,        \* native resources allocated and not released
  freed,       \* native resources released, in order
  stream,      \* the byte-stream cursor of an in-memory source: length and offset
  reads,       \* the calls of the read callback the last operation caused, in order
  seen,        \* observations of the calls made so far (see Observe)
  hist         \* the most recent calls that returned, oldest first (see Remember)

vars == <<phase, input, newResult, steps, framerate, dimensions, buffer, should_loop,
          index, texture_data, stream_id, pos, held, live, freed, stream, reads,
          seen, hist>>

NoInput == [kind |-> "none", streams |-> <<>>, packets |-> <<>>, delay |-> 0,
            width |-> 0, height |-> 0, failAt |-> "none"]
NoDimensions == [width |-> 0, height |-> 0]
\* no byte-stream cursor: the source is a file
NoStream == [length |-> 0, offset |-> 0]
\* nothing observed yet: no call made, no skip made, no Ok(None) returned, no
\* frame returned (lastIndex: index of the frame returned last; returned:
\* frames returned since construction or the last Loop Reset; replayed: a
\* Loop Reset was made after the last frame was returned; these four only
\* while no skip was called); of the last
\* call: the Loop Resets it made, the frames it decoded and discarded, the
\* packets it read and did not release, and
\* next_index before it
NoneSeen == [used |-> FALSE, skipped |-> FALSE, ended |-> FALSE,
             lastIndex |-> 0, returned |-> 0, replayed |-> FALSE,
             loops |-> 0, decoded |-> 0, before |-> 0, unreleased |-> 0]

Init ==
  /\ phase = "none"
  /\ input = NoInput
  /\ newResult = "none"
  /\ steps = <<>>
  /\ framerate = <<0, 0>>
  /\ dimensions = NoDimensions
  /\ buffer = <<>>
  /\ should_loop = FALSE
  /\ index = 0
  /\ texture_data = 0
  /\ stream_id = -1
  /\ pos = 0
  /\ held = 0
  /\ live = {}
  /\ freed = <<>>
  /\ stream = NoStream
  /\ reads = <<>>
  /\ seen = NoneSeen
  /\ hist = <<>>

\* ------------------------------------------------------------------- new
\* av_image_get_buffer_size(RGB24, w, h, align): every row is padded to the
\* alignment, the size is the padded row size times the height
FFALIGN(x, a) == ((x + a - 1) \div a) * a
av_image_get_buffer_size(w, h, align) == FFALIGN(3 * w, align) * h

\* num as f32 / den as f32, for rates whose quotient is an integer; -1 is NaN
NaN == -1
F32Div(num, den) == IF den = 0 THEN NaN ELSE num \div den

\* the calls of new that can end it, in the order new makes them
SetupSteps == << "path_to_raw", "avformat_open_input", "avformat_find_stream_info",
                 "find_video_stream", "avcodec_find_decoder", "avcodec_open2",
                 "av_image_fill_arrays", "sws_getContext" >>

\* the error kinds with the one of avcodec_open2 taken from the step after it
ErrorOf_Shifted(step) ==
  CASE step = "path_to_raw" -> "InvalidSource"
    [] step = "avformat_open_input" -> "UnableToOpenInput"
    [] step = "avformat_find_stream_info" -> "UnableToReadStreamInfo"
    [] step = "find_video_stream" -> "UnableToFindVideoStream"
    [] step = "avcodec_find_decoder" -> "UnsupportedCodec"
    [] step = "avcodec_open2" -> "UnableToReadFrameBuffer"
    [] step = "av_image_fill_arrays" -> "UnableToReadFrameBuffer"
    [] OTHER -> "none"

ErrorOf(step) ==
  CASE step = "path_to_raw" -> "InvalidSource"
    [] step = "avformat_open_input" -> "UnableToOpenInput"
    [] step = "avformat_find_stream_info" -> "UnableToReadStreamInfo"
    [] step = "find_video_stream" -> "UnableToFindVideoStream"
    [] step = "avcodec_find_decoder" -> "UnsupportedCodec"
    [] step = "avcodec_open2" -> "UnsupportedCodec"
    [] step = "av_image_fill_arrays" -> "UnableToReadFrameBuffer"
    [] OTHER -> "none"

\* the first stream classified as video (0-based), -1 when there is none
FirstVideo(streams) ==
  LET vs == {i \in 0..(Len(streams) - 1) : streams[i + 1].type = "video"}
  IN IF vs = {} THEN -1 ELSE CHOOSE i \in vs : \A j \in vs : i <= j

\* a step is skipped for a source it does not apply to
StepApplies(step, in) == step = "path_to_raw" => in.kind = "Filesystem"

StepFails(step, in) ==
  \/ step # "sws_getContext" /\ step # "find_video_stream" /\ in.failAt = step
  \/ step = "find_video_stream" /\ FirstVideo(in.streams) = -1

\* native resources allocated before any fallible call
InitialResources(in) ==
  {"io_buffer", "input_ctx"} \cup (IF in.kind = "Raw" THEN {"avio"} ELSE {})

\* native resources allocated right before (or by) a step
AcquiredAt(step) ==
  CASE step = "avcodec_open2" -> {"codec_ctx"}
    [] step = "av_image_fill_arrays" -> {"raw_frame", "rgb_frame"}
    [] step = "sws_getContext" -> {"sws_context"}
    [] OTHER -> {}

\* what a failing step releases itself: avformat_open_input frees the
\* context it was given when it fails; new releases nothing on its error returns
ReleasedOnFailure(step) ==
  IF step = "avformat_open_input" THEN {"input_ctx"} ELSE {}

Min(a, b) == IF a <= b THEN a ELSE b

\* read_stream that copies as many bytes as it was asked for
read_stream_Unclamped(s, size) ==
  LET n == size IN
  [stream |-> [s EXCEPT !.offset = @ + n],
   read |-> [offset |-> s.offset, size |-> size, copied |-> n, ret |-> n]]

\* extern "C" fn read_stream(ptr, buf, size) -> i32: the cursor after the
\* call, and of the call: the offset it copied from, the size asked for, the
\* bytes copied to buf and the value returned
read_stream(s, size) ==
  LET n == Min(size, s.length - s.offset) IN
  [stream |-> [s EXCEPT !.offset = @ + n],
   read |-> [offset |-> s.offset, size |-> size, copied |-> n, ret |-> n]]

\* The engine reads on through the callback, a full I/O buffer at a time,
\* until it has been given the first `need` bytes of the source or a read
\* delivers nothing. c is a cursor and the reads made so far.
RECURSIVE Fill(_, _)
Fill(c, need) ==
  IF c.stream.offset >= need THEN c
  ELSE LET r == read_stream(c.stream, BUFFER_SIZE)
           e == [stream |-> r.stream, reads |-> Append(c.reads, r.read)]
       IN IF r.read.ret <= 0 THEN e ELSE Fill(e, need)

\* new, "let mut stream = Stream { length: data.len(), offset: 0, .. }", and
\* the reads avformat_open_input makes for the header
OpenStream(in, opened) ==
  IF in.kind # "Raw" THEN [stream |-> NoStream, reads |-> <<>>]
  ELSE LET c == [stream |-> [length |-> DataLength(in.packets), offset |-> 0],
                 reads |-> <<>>]
       IN IF opened THEN Fill(c, HeaderBytes) ELSE c

RECURSIVE RunSetup(_, _, _, _)
RunSetup(in, i, done, res) ==
  IF i > Len(SetupSteps) THEN [result |-> "Ok", steps |-> done, live |-> res]
  ELSE LET step == SetupSteps[i] IN
    IF ~StepApplies(step, in) THEN RunSetup(in, i + 1, done, res)
    ELSE IF StepFails(step, in)
      THEN [result |-> ErrorOf(step), steps |-> Append(done, step),
            live |-> (res \cup AcquiredAt(step)) \ ReleasedOnFailure(step)]
      ELSE RunSetup(in, i + 1, Append(done, step), res \cup AcquiredAt(step))

FailPoints == {"none", "path_to_raw", "avformat_open_input", "avformat_find_stream_info",
               "avcodec_find_decoder", "avcodec_open2", "av_image_fill_arrays"}

\* The sources tried: every packet sequence, codec delay and loop mode for a
\* file of two streams with the smaller picture on which setup succeeds, and
\* sources of at most one packet for every other kind of source, stream list,
\* picture width and setup failure.
Baseline(in) ==
  /\ in.kind = "Filesystem" /\ Len(in.streams) = 2 /\ in.failAt = "none"
  /\ \A w \in Widths : in.width <= w

ValidInput(in) ==
  /\ \A i \in 1..Len(in.packets) : in.packets[i] \in PacketsOf(in.streams)
  /\ in.failAt = "path_to_raw" => in.kind = "Filesystem"
  /\ Baseline(in) \/ Len(in.packets) <= 1

\* the frames of the selected video stream that the codec accepts
RECURSIVE FramesIn(_, _)
FramesIn(ps, sid) ==
  IF ps = <<>> THEN 0
  ELSE (IF Head(ps).stream = sid /\ Head(ps).ok THEN Head(ps).frames ELSE 0)
       + FramesIn(Tail(ps), sid)

\* VideoDecoder::new(source, should_loop)
New(in, loop) ==
  /\ phase = "none"
  /\ ValidInput(in)
  /\ LET r == RunSetup(in, 1, <<>>, InitialResources(in)) IN
     /\ input' = in
     /\ newResult' = r.result
     /\ steps' = r.steps
     /\ live' = r.live
     /\ LET c == OpenStream(in, Len(r.steps) >= 1 /\ r.result # "UnableToOpenInput") IN
        stream' = c.stream /\ reads' = c.reads
     /\ IF r.result = "Ok"
        THEN /\ phase' = "ready"
             /\ dimensions' = [width |-> in.width, height |-> in.height]
             /\ framerate' = F32Div(in.streams[1].rate[1], in.streams[1].rate[2])
             /\ texture_data' = av_image_get_buffer_size(in.width, in.height, BUFFER_ALIGNMENT)
             /\ index' = 1
             /\ buffer' = <<>>
             /\ should_loop' = loop
             /\ stream_id' = FirstVideo(in.streams)
        ELSE /\ phase' = "failed"
             /\ UNCHANGED <<dimensions, framerate, texture_data, index, buffer,
                            should_loop, stream_id>>
  /\ UNCHANGED <<pos, held, freed, seen, hist>>

\* ------------------------------------------------------------------ drop
\* a teardown that closes the input context before everything else
DropOrder_InputFirst ==
  << "input_ctx", "sws_context", "rgb_frame", "raw_frame", "avio", "codec_ctx" >>

DropOrder == << "sws_context", "rgb_frame", "raw_frame", "avio", "codec_ctx", "input_ctx" >>

\* the resources Drop releases, in order; the custom I/O adapter only if there is one
DropSeq(hasAvio) ==
  SelectSeq(DropOrder, LAMBDA r : r = "avio" => hasAvio)

SeqRange(s) == {s[i] : i \in 1..Len(s)}

\* impl Drop for VideoDecoder
Drop ==
  /\ phase \in {"ready", "panicked"}
  /\ phase' = "dropped"
  /\ freed' = freed \o DropSeq(input.kind = "Raw")
  /\ live' = live \ SeqRange(DropSeq(input.kind = "Raw"))
  /\ UNCHANGED <<input, newResult, steps, framerate, dimensions, buffer, should_loop,
                 index, texture_data, stream_id, pos, held, stream, reads, seen, hist>>

\* ------------------------------------------------- decoder state of a call
\* The fields a call works on, and two observations of the call: the Loop
\* Resets it made and the frames it decoded and discarded.
Cur == [index |-> index, buffer |-> buffer, pos |-> pos, held |-> held,
        loops |-> 0, decoded |-> 0, stream |-> stream, reads |-> <<>>,
        packet |-> FALSE, unreleased |-> 0]

\* a frame tagged with transposed dimensions
Frame_Transposed(i) ==
  [index |-> i, data |-> texture_data,
   dimensions |-> [width |-> dimensions.height, height |-> dimensions.width]]

Frame(i) == [index |-> i, data |-> texture_data, dimensions |-> dimensions]
NoFrame == [index |-> 0, data |-> 0, dimensions |-> NoDimensions]

\* av_read_frame(input_ctx, &mut packet) on an in-memory source: the engine
\* fetches the bytes of the next packet, or finds out that there are no more
av_read_frame(d) ==
  IF input.kind # "Raw" THEN d
  ELSE LET need == IF d.pos >= Len(input.packets) THEN d.stream.length + 1
                   ELSE HeaderBytes + PacketBytes * (d.pos + 1)
           c == Fill([stream |-> d.stream, reads |-> d.reads], need)
       IN [d EXCEPT !.stream = c.stream, !.reads = c.reads]

\* av_read_frame(input_ctx, &mut packet) < 0
ReadFails(d) == d.pos >= Len(input.packets)
\* the packet av_read_frame delivers
ReadPacket(d) == input.packets[d.pos + 1]

\* av_read_frame(..) >= 0: the engine has moved on by one packet and
\* self.packet refers to its data; a reference that self.packet still held
\* is overwritten and can no longer be released
PacketRead(d) ==
  [d EXCEPT !.pos = @ + 1,
            !.unreleased = @ + (IF d.packet THEN 1 ELSE 0),
            !.packet = TRUE]

\* av_packet_unref(&mut self.packet)
av_packet_unref(d) == [d EXCEPT !.packet = FALSE]

\* the packets a call has read and not released when it returns d
Unreleased(d) == d.unreleased + (IF d.packet THEN 1 ELSE 0)

\* loop_ctx that seeks and leaves index as it is
loop_ctx_KeepsIndex(d) == [d EXCEPT !.pos = 0, !.loops = @ + 1]

\* fn loop_ctx(&mut self): seek to the start, index = 1
loop_ctx(d) == [d EXCEPT !.pos = 0, !.index = 1, !.loops = @ + 1]

\* avcodec_send_packet accepted the packet: its frames are inside the codec
SendPacket(d, p) == [d EXCEPT !.held = @ + p.frames]

\* avcodec_receive_frame(...) >= 0
ReceiveReady(d) == d.held > input.delay

\* the receive loop without "self.index += 1"
RECURSIVE ReceiveAll_NoIncrement(_)
ReceiveAll_NoIncrement(d) ==
  IF ReceiveReady(d)
  THEN LET e == ReceiveAll_NoIncrement([d EXCEPT !.held = @ - 1]) IN
       [e EXCEPT !.buffer = <<[index |-> d.index, data |-> texture_data,
                              dimensions |-> dimensions]>> \o @]
  ELSE d

\* next_frame, the loop "while avcodec_receive_frame(..) >= 0": every frame
\* the codec hands out is converted, tagged with index and enqueued
RECURSIVE ReceiveAll(_)
ReceiveAll(d) ==
  IF ReceiveReady(d)
  THEN ReceiveAll([d EXCEPT !.held = @ - 1,
                            !.buffer = Append(@, Frame(d.index)),
                            !.index = @ + 1])
  ELSE d

\* next_frame that gives up on a refused packet before the reader has moved
\* past it
RECURSIVE next_frame_KeepsPacket(_, _)
next_frame_KeepsPacket(d, mark) ==
  IF d.buffer # <<>>
  THEN [d |-> [d EXCEPT !.buffer = Tail(@)], ret |-> "frame", frame |-> Head(d.buffer)]
  ELSE IF ReadFails(d)
  THEN IF should_loop
       THEN IF mark = d.held
            THEN [d |-> d, ret |-> "diverge", frame |-> NoFrame]
            ELSE next_frame_KeepsPacket(loop_ctx(av_read_frame(d)), d.held)
       ELSE [d |-> av_read_frame(d), ret |-> "none", frame |-> NoFrame]
  ELSE LET p == ReadPacket(d)
           d1 == PacketRead(av_read_frame(d))
       IN IF p.stream = stream_id
          THEN IF ~p.ok
               THEN [d |-> av_read_frame(d), ret |-> "UnableToSendPacketToDecoder", frame |-> NoFrame]
               ELSE next_frame_KeepsPacket(av_packet_unref(ReceiveAll(SendPacket(d1, p))), mark)
          ELSE next_frame_KeepsPacket(av_packet_unref(d1), mark)

\* fn next_frame(&mut self); mark is the codec content at the last Loop Reset
\* of this call (-1: none yet): coming back to end of input with the same
\* content and nothing enqueued, the recursion never ends
RECURSIVE next_frame(_, _)
next_frame(d, mark) ==
  IF d.buffer # <<>>
  THEN [d |-> [d EXCEPT !.buffer = Tail(@)], ret |-> "frame", frame |-> Head(d.buffer)]
  ELSE IF ReadFails(d)
  THEN IF should_loop
       THEN IF mark = d.held
            THEN [d |-> d, ret |-> "diverge", frame |-> NoFrame]
            ELSE next_frame(loop_ctx(av_read_frame(d)), d.held)
       ELSE [d |-> av_read_frame(d), ret |-> "none", frame |-> NoFrame]
  ELSE LET p == ReadPacket(d)
           d1 == PacketRead(av_read_frame(d))
       IN IF p.stream = stream_id
          THEN IF ~p.ok
               THEN [d |-> d1, ret |-> "UnableToSendPacketToDecoder", frame |-> NoFrame]
               ELSE next_frame(av_packet_unref(ReceiveAll(SendPacket(d1, p))), mark)
          ELSE next_frame(av_packet_unref(d1), mark)

\* ------------------------------------------------------------------ skip
saturating_sub(a, b) == IF a >= b THEN a - b ELSE 0

\* VecDeque::drain(..=limit): panics when limit + 1 exceeds the length
DrainPanics(buf, limit) == limit + 1 > Len(buf)
DrainThrough(buf, limit) == SubSeq(buf, limit + 2, Len(buf))

\* skip, the loop "while avcodec_receive_frame(..) >= 0 { frames -= 1; index += 1;
\* if frames == 0 { break } }": the frames it takes out of the codec
Discarded(d, frames) == IF ReceiveReady(d) THEN Min(d.held - input.delay, frames) ELSE 0

\* the loop of skip without the check of the packet's stream
RECURSIVE SkipLoop_AnyStream(_, _)
SkipLoop_AnyStream(d, frames) ==
  IF frames = 0 THEN d
  ELSE IF ReadFails(d) THEN av_read_frame(d)
  ELSE LET p == ReadPacket(d)
           d1 == PacketRead(av_read_frame(d))
       IN IF TRUE
          THEN IF ~p.ok
               THEN SkipLoop_AnyStream(d1, frames)
               ELSE LET d2 == SendPacket(d1, p)
                        k == Discarded(d2, frames)
                    IN SkipLoop_AnyStream([d2 EXCEPT !.held = @ - k, !.index = @ + k,
                                           !.decoded = @ + k], frames - k)
          ELSE SkipLoop_AnyStream(d1, frames)

\* skip, the loop "while frames > 0"
RECURSIVE SkipLoop(_, _)
SkipLoop(d, frames) ==
  IF frames = 0 THEN d
  ELSE IF ReadFails(d) THEN av_read_frame(d)
  ELSE LET p == ReadPacket(d)
           d1 == PacketRead(av_read_frame(d))
       IN IF p.stream = stream_id
          THEN IF ~p.ok
               THEN SkipLoop(d1, frames)
               ELSE LET d2 == SendPacket(d1, p)
                        k == Discarded(d2, frames)
                    IN SkipLoop([d2 EXCEPT !.held = @ - k, !.index = @ + k,
                                           !.decoded = @ + k], frames - k)
          ELSE SkipLoop(d1, frames)

\* skip(n), n > 0
SkipForward(d, n) ==
  IF d.buffer # <<>> /\ Len(d.buffer) <= n
  THEN LET limit == IF Len(d.buffer) <= n THEN Len(d.buffer) ELSE n IN
       IF DrainPanics(d.buffer, limit)
       THEN [d |-> d, ret |-> "panic"]
       ELSE [d |-> SkipLoop([d EXCEPT !.buffer = DrainThrough(@, limit)], n - limit),
             ret |-> "unit"]
  ELSE [d |-> SkipLoop(d, n), ret |-> "unit"]

Abs(n) == IF n < 0 THEN -n ELSE n

\* skip(n), n < 0, without the correction by 2 for next_index
SkipBackward_NoCorrection(d, n) ==
  LET offset == saturating_sub(d.index, Abs(n))
      d1 == loop_ctx(d)
  IN IF offset > 0 THEN SkipForward(d1, offset) ELSE [d |-> d1, ret |-> "unit"]

\* skip(n), n < 0
SkipBackward(d, n) ==
  LET offset == saturating_sub(saturating_sub(d.index, 2), Abs(n))
      d1 == loop_ctx(d)
  IN IF offset > ISIZE_MAX
     THEN LET r1 == SkipForward(d1, ISIZE_MAX) IN
          IF r1.ret = "panic" THEN r1 ELSE SkipForward(r1.d, offset - ISIZE_MAX)
     ELSE IF offset > 0 THEN SkipForward(d1, offset)
     ELSE [d |-> d1, ret |-> "unit"]

\* pub fn skip(&mut self, n: isize)
skip(d, n) ==
  IF n > 0 THEN SkipForward(d, n)
  ELSE IF n < 0 THEN SkipBackward(d, n)
  ELSE [d |-> d, ret |-> "unit"]

\* --------------------------------------------------------- public calls
\* the index of the frame next_frame would return next
NextUp == IF buffer # <<>> THEN Head(buffer).index ELSE index

\* a call that ended: its arguments, how it ended (for a frame: the frame),
\* the index of the frame that was up next before it, and whether it was the
\* first call on the decoder
Call(op, n, ret, frame) ==
  [op |-> op, n |-> n, ret |-> ret, frame |-> frame, upNext |-> NextUp,
   first |-> ~seen.used]

\* The call sequences that are remembered whole:
\*   next_frame -> frame i; skip(k), k > 0; next_frame; skip(-k); next_frame
\*   skip(k), k > 0; skip(-k); next_frame
\* and every prefix of them.
IsNext(c) == c.op = "next_frame"
IsFrame(c) == c.op = "next_frame" /\ c.ret = "frame"
IsSkip(c) == c.op = "skip"

SkipThenBack(s) ==
  /\ Len(s) >= 1 => IsFrame(s[1])
  /\ Len(s) >= 2 => IsSkip(s[2]) /\ s[2].n > 0
  /\ Len(s) >= 3 => IsNext(s[3])
  /\ Len(s) >= 4 => IsFrame(s[3]) /\ IsSkip(s[4]) /\ s[4].n = -s[2].n
  /\ Len(s) >= 5 => IsNext(s[5])
  /\ Len(s) <= 5

RoundTrip(s) ==
  /\ Len(s) >= 1 => IsSkip(s[1]) /\ s[1].n > 0
  /\ Len(s) >= 2 => IsSkip(s[2]) /\ s[2].n = -s[1].n
  /\ Len(s) >= 3 => IsNext(s[3])
  /\ Len(s) <= 3

Tracked(s) == Len(s) <= 1 \/ SkipThenBack(s) \/ RoundTrip(s)

RECURSIVE LongestTracked(_)
LongestTracked(s) == IF Tracked(s) THEN s ELSE LongestTracked(Tail(s))

\* hist after call c: the longest tail of the calls that is still remembered
Remember(c) == LongestTracked(Append(hist, c))

\* ended, lastIndex, replayed and returned are kept while next_frame is the
\* only call made, and are back at their initial values once skip is called
Observe(c, d) ==
  LET only == ~seen.skipped /\ IsNext(c) IN
  [used |-> TRUE,
   skipped |-> seen.skipped \/ IsSkip(c),
   ended |-> only /\ (seen.ended \/ c.ret = "none"),
   lastIndex |-> IF ~only THEN 0
                 ELSE IF IsFrame(c) THEN c.frame.index ELSE seen.lastIndex,
   replayed |-> only /\ ~IsFrame(c) /\ (seen.replayed \/ d.loops > 0),
   returned |-> IF ~only THEN 0
                ELSE IF d.loops > 0 THEN (IF IsFrame(c) THEN 1 ELSE 0)
                ELSE IF IsFrame(c) THEN seen.returned + 1 ELSE seen.returned,
   loops |-> d.loops, decoded |-> d.decoded, before |-> index,
   unreleased |-> Unreleased(d)]

\* The byte-stream cursor of an in-memory source is a local of new that the
\* engine keeps a pointer to: a call that makes the engine read through it
\* may fault instead of behaving as for a file.
MayFault == input.kind = "Raw"

Fault ==
  /\ phase = "ready"
  /\ MayFault
  /\ phase' = "crashed"
  /\ UNCHANGED <<input, newResult, steps, framerate, dimensions, buffer, should_loop,
                 index, texture_data, stream_id, pos, held, live, freed, stream, reads,
                 seen, hist>>

Returned(c, d) ==
  /\ phase' = phase
  /\ index' = d.index
  /\ buffer' = d.buffer
  /\ pos' = d.pos
  /\ held' = d.held
  /\ stream' = d.stream
  /\ reads' = d.reads
  /\ seen' = Observe(c, d)
  /\ hist' = Remember(c)

NextFrame ==
  /\ phase = "ready"
  /\ LET r == next_frame(Cur, -1) IN
     IF r.ret = "diverge"
     THEN /\ phase' = "diverged"
          /\ UNCHANGED <<index, buffer, pos, held, stream, reads, seen, hist>>
     ELSE Returned(Call("next_frame", 0, r.ret, r.frame), r.d)
  /\ UNCHANGED <<input, newResult, steps, framerate, dimensions, should_loop,
                 texture_data, stream_id, live, freed>>

Skip(n) ==
  /\ phase = "ready"
  /\ LET r == skip(Cur, n) IN
     /\ r.d.held <= MaxHeld
     /\ IF r.ret = "panic"
        THEN /\ phase' = "panicked"
             /\ seen' = Observe(Call("skip", n, r.ret, NoFrame), r.d)
             /\ hist' = Remember(Call("skip", n, r.ret, NoFrame))
             /\ UNCHANGED <<index, buffer, pos, held, stream, reads>>
        ELSE Returned(Call("skip", n, r.ret, NoFrame), r.d)
  /\ UNCHANGED <<input, newResult, steps, framerate, dimensions, should_loop,
                 texture_data, stream_id, live, freed>>

Construct ==
  /\ phase = "none"
  /\ \E k \in SourceKinds, ss \in StreamLists, d \in 0..MaxDelay, w \in Widths,
        h \in Heights, f \in FailPoints, loop \in BOOLEAN :
       \E ps \in SeqsUpTo(PacketsOf(ss), MaxPackets) :
         New([kind |-> k, streams |-> ss, packets |-> ps, delay |-> d,
              width |-> w, height |-> h, failAt |-> f], loop)

Next ==
  \/ Construct
  \/ NextFrame
  \/ \E n \in (-MaxSkip)..MaxSkip : Skip(n)
  \/ Fault
  \/ Drop

Spec == Init /\ [][Next]_vars

\* ------------------------------------------------------------ properties
Last(s) == s[Len(s)]
\* a step in which a public call returned to its caller
CallReturns == phase = "ready" /\ phase' = "ready"
\* frames of the selected video stream of the source
TotalFrames == FramesIn(input.packets, stream_id)

\* C1: on a non-looping decoder on which only next_frame is called, every
\* frame returned has the index of the previous frame plus one, the first has
\* index 1, and once Ok(None) was returned every later call returns Ok(None).
\* Ok(None) does come: a call that returns anything else leaves fewer unread
\* packets, or as many and fewer buffered frames.
C1_IncreasingThenNone ==
  [][ (CallReturns /\ ~should_loop /\ ~seen'.skipped) =>
        LET c == Last(hist') IN
          /\ IsFrame(c) => c.frame.index = seen.lastIndex + 1
          /\ seen.ended => c.ret = "none"
          /\ c.ret # "none" =>
               pos' > pos \/ (pos' = pos /\ Len(buffer') < Len(buffer)) ]_vars

C1_Witness ==
  /\ phase = "ready" /\ ~should_loop /\ ~seen.skipped
  /\ seen.ended /\ seen.lastIndex >= 3 /\ Last(hist).ret = "none"

\* C2: on a looping decoder no next_frame call returns Ok(None); when only
\* next_frame is called, a returned frame has index 1 exactly when it is the
\* first frame of the decoder or end of input was reached and the source
\* replayed since the previous frame, and otherwise the previous index plus one.
C2_LoopingNeverNone ==
  [][ (CallReturns /\ should_loop) =>
        LET c == Last(hist') IN
          /\ IsNext(c) => c.ret # "none"
          /\ (IsFrame(c) /\ ~seen'.skipped) =>
               IF seen.lastIndex = 0 \/ seen.replayed \/ seen'.loops > 0
               THEN c.frame.index = 1
               ELSE c.frame.index = seen.lastIndex + 1 /\ c.frame.index # 1 ]_vars

C2_Witness ==
  /\ phase = "ready" /\ should_loop /\ ~seen.skipped
  /\ seen.lastIndex = 1 /\ seen.loops > 0 /\ IsFrame(Last(hist))
  /\ TotalFrames >= 2

\* C3 as stated: skip(k) followed by skip(-k), 0 < k < F, and then next_frame
\* returns the frame that was up next before the two skips.
C3_Original ==
  (Len(hist) = 3 /\ RoundTrip(hist) /\ hist[1].n < TotalFrames /\ IsFrame(hist[3]))
     => hist[3].frame.index = hist[1].upNext

\* C3, amended: on a decoder no call was made on before, skip(k) followed by
\* skip(-k), 0 < k < F, leaves next_index = 1 and the frame buffer empty, and
\* a frame that next_frame returns then has index 1.
C3_FreshRoundTrip ==
  (Len(hist) >= 2 /\ RoundTrip(hist) /\ hist[1].first /\ hist[1].n < TotalFrames) =>
     /\ hist[1].ret = "unit" /\ hist[2].ret = "unit"
     /\ Len(hist) = 2 => index = 1 /\ buffer = <<>>
     /\ (Len(hist) = 3 /\ IsFrame(hist[3])) => hist[3].frame.index = 1

C3_Witness ==
  /\ Len(hist) = 3 /\ RoundTrip(hist) /\ hist[1].first /\ hist[1].n = 2
  /\ hist[1].n < TotalFrames /\ IsFrame(hist[3]) /\ hist[3].frame.index = 1

\* C4: after next_frame returned the frame with index i, skip(k), k > 0,
\* returns and the next next_frame returns the frame with index i + k + 1
\* when the source has that many frames; skip(-k) then returns and the next
\* next_frame returns the frame with index i + 1.
C4_SkipComposition ==
  (Len(hist) >= 2 /\ SkipThenBack(hist)
     /\ hist[1].frame.index + hist[2].n + 1 <= TotalFrames) =>
       /\ hist[2].ret = "unit"
       /\ Len(hist) >= 3 =>
            IsFrame(hist[3]) /\ hist[3].frame.index = hist[1].frame.index + hist[2].n + 1
       /\ Len(hist) >= 4 => hist[4].ret = "unit"
       /\ Len(hist) = 5 =>
            IsFrame(hist[5]) /\ hist[5].frame.index = hist[1].frame.index + 1

\* C5: skip(n), n > 0, returns without panicking, makes no Loop Reset, and
\* advances next_index by exactly the frames it decoded and discarded.
C5_ForwardSkipStops ==
  (hist # <<>> /\ IsSkip(Last(hist)) /\ Last(hist).n > 0) =>
     /\ Last(hist).ret = "unit"
     /\ seen.loops = 0
     /\ index = seen.before + seen.decoded

\* C6: a non-looping decoder on which only next_frame is called has, when it
\* returns Ok(None), returned exactly F frames, the last with index F.
C6_AllFramesYielded ==
  (phase = "ready" /\ ~should_loop /\ ~seen.skipped /\ seen.ended) =>
     seen.returned = TotalFrames /\ seen.lastIndex = TotalFrames

\* C7: every frame returned by next_frame holds exactly width * height * 3 bytes.
C7_TightlyPacked ==
  (hist # <<>> /\ IsFrame(Last(hist))) =>
     Last(hist).frame.data = dimensions.width * dimensions.height * 3

\* C8: no call changes what dimensions() and framerate() return, and every
\* frame returned by next_frame reports the decoder's dimensions.
C8_DimensionsFixed ==
  [][ phase = "ready" =>
        /\ dimensions' = dimensions
        /\ framerate' = framerate
        /\ (hist' # <<>> /\ IsFrame(Last(hist'))) =>
              Last(hist').frame.dimensions = dimensions' ]_vars

C8_Witness ==
  /\ phase = "ready" /\ seen.skipped /\ seen.loops > 0 /\ IsFrame(Last(hist))
  /\ Last(hist).frame.dimensions = [width |-> input.width, height |-> input.height]
  /\ dimensions = [width |-> input.width, height |-> input.height]

\* C9: new runs open input, probe stream info, select video stream, resolve
\* codec, open codec context, bind frame buffer in this order; the first of
\* them that fails ends new with its error, no later step runs and no decoder
\* exists; when none fails the decoder starts with an empty frame buffer and
\* next_index = 1.
C9Order == << "avformat_open_input", "avformat_find_stream_info", "find_video_stream",
              "avcodec_find_decoder", "avcodec_open2", "av_image_fill_arrays" >>
C9Errors == << "UnableToOpenInput", "UnableToReadStreamInfo", "UnableToFindVideoStream",
               "UnsupportedCodec", "UnsupportedCodec", "UnableToReadFrameBuffer" >>
C9Failing(in) ==
  {i \in 1..6 : \/ C9Order[i] = in.failAt
                \/ i = 3 /\ \A j \in 1..Len(in.streams) : in.streams[j].type # "video"}
C9Ran(ss) == SelectSeq(ss, LAMBDA x : \E i \in 1..6 : C9Order[i] = x)

C9_SetupOrder ==
  [][ (phase = "none" /\ phase' # "none" /\ input'.failAt # "path_to_raw") =>
        LET failing == C9Failing(input') IN
        IF failing = {}
        THEN /\ newResult' = "Ok" /\ phase' = "ready"
             /\ C9Ran(steps') = C9Order
             /\ buffer' = <<>> /\ index' = 1
        ELSE LET f == CHOOSE i \in failing : \A j \in failing : i <= j IN
             /\ newResult' = C9Errors[f] /\ phase' = "failed"
             /\ C9Ran(steps') = SubSeq(C9Order, 1, f) ]_vars

C9_Witness ==
  /\ phase = "failed" /\ newResult = "UnableToFindVideoStream"
  /\ input.failAt = "avcodec_open2"
  /\ Last(steps) = "find_video_stream"

\* C10: when new has returned an error, and when a decoder has been dropped,
\* every native resource new acquired has been released.
C10_AllReleased ==
  phase \in {"failed", "dropped"} => live = {}

\* C11: every call of next_frame and of skip comes to an end, also on a
\* looping decoder whose source yields no frame between two ends of input.
C11_CallsTerminate ==
  phase # "diverged"

\* C19: framerate() is the frame rate of the selected stream, the first
\* stream classified as video.
C19_SelectedStreamRate ==
  phase = "ready" =>
     framerate = F32Div(input.streams[stream_id + 1].rate[1],
                        input.streams[stream_id + 1].rate[2])

\* C20: a dropped decoder has released, each once and in this order, the
\* scale context, the converted and the raw frame holder, the custom I/O
\* adapter if the source was in memory, the codec context, the input context.
C20_DropOrder ==
  phase = "dropped" =>
     freed = IF input.kind = "Raw"
             THEN << "sws_context", "rgb_frame", "raw_frame", "avio", "codec_ctx", "input_ctx" >>
             ELSE << "sws_context", "rgb_frame", "raw_frame", "codec_ctx", "input_ctx" >>

C20_Witness ==
  phase = "dropped" /\ input.kind = "Raw" /\ Len(freed) = 6 /\ seen.used

\* a step in which next_frame returned Err(UnableToSendPacketToDecoder)
SendFailed ==
  /\ CallReturns
  /\ hist' # <<>>
  /\ Last(hist').op = "next_frame"
  /\ Last(hist').ret = "UnableToSendPacketToDecoder"

\* the packet the reader delivered last is one of the selected stream that
\* the codec refuses: the reader is past it, the next read delivers another
RefusedPacketConsumed ==
  /\ pos' >= 1
  /\ input.packets[pos'].stream = stream_id
  /\ ~input.packets[pos'].ok

\* C12 as stated: a call of next_frame that fails to submit a packet of the
\* selected stream returns the error with the packet consumed, no frame
\* enqueued, and frame buffer and next_index as they were before the call.
C12_Original ==
  [][SendFailed => /\ RefusedPacketConsumed
                   /\ buffer' = buffer
                   /\ index' = index]_vars

\* C12: a call of next_frame that fails to submit a packet of the selected
\* stream returns the error with the packet consumed, no frame enqueued and
\* the frame buffer as it was; next_index is as it was before the call unless
\* the call made a Loop Reset before reading the packet, and is 1 then.
C12_SendFailure ==
  [][SendFailed => /\ RefusedPacketConsumed
                   /\ buffer' = buffer
                   /\ index' = IF seen'.loops > 0 THEN 1 ELSE index]_vars

C12_Witness ==
  /\ phase = "ready"
  /\ hist # <<>>
  /\ Last(hist).op = "next_frame"
  /\ Last(hist).ret = "UnableToSendPacketToDecoder"
  /\ seen.loops > 0
  /\ seen.before > 1

\* a step in which skip(n) with n > 0 was called on a ready decoder
ForwardSkipCalled ==
  /\ phase = "ready"
  /\ phase' \in {"ready", "panicked"}
  /\ hist' # <<>>
  /\ Last(hist').op = "skip"
  /\ Last(hist').n > 0

\* C13: skip(n), n > 0, on a buffer of b frames returns without panicking,
\* has removed the first min(n, b) buffered frames, left the other buffered
\* frames in order, and has decoded and discarded at most n - min(n, b) frames.
C13_DrainThenDecode ==
  [][ForwardSkipCalled =>
       LET n == Last(hist').n
           b == Len(buffer)
           m == Min(n, b)
       IN /\ phase' = "ready"
          /\ buffer' = SubSeq(buffer, m + 1, b)
          /\ seen'.decoded <= n - m]_vars

\* a step in which skip(n) with n < 0 was called on a ready decoder
BackwardSkipCalled ==
  /\ phase = "ready"
  /\ phase' \in {"ready", "panicked"}
  /\ hist' # <<>>
  /\ Last(hist').op = "skip"
  /\ Last(hist').n < 0

\* max(0, next_index - 2 - |n|)
BackwardTarget(n) ==
  IF index - 2 - Abs(n) > 0 THEN index - 2 - Abs(n) ELSE 0

\* C14: skip(n), n < 0, returns having made a Loop Reset and skipped forward
\* by offset = max(0, next_index - 2 - |n|): next_index is 1 + offset when the
\* source has that many frames, and with offset = 0 the decoder is at the
\* first frame, next_index = 1 and nothing buffered ahead of it.
C14_BackwardSkip ==
  [][BackwardSkipCalled =>
       LET offset == BackwardTarget(Last(hist').n)
       IN /\ phase' = "ready"
          /\ seen'.loops >= 1
          /\ TotalFrames >= offset => index' = 1 + offset
          /\ offset = 0 => index' = 1 /\ pos' = 0 /\ buffer' = <<>>]_vars

\* a step in which skip(n), n < 0, returned with nothing to skip forward
\* after its Loop Reset: the step is a Loop Reset and nothing else
LoopResetOnly ==
  /\ BackwardSkipCalled
  /\ phase' = "ready"
  /\ BackwardTarget(Last(hist').n) = 0

\* the last call that returned was such a Loop Reset
AfterLoopReset ==
  /\ hist # <<>>
  /\ Last(hist).op = "skip" /\ Last(hist).n < 0
  /\ seen.loops = 1 /\ seen.decoded = 0
  /\ seen.before - 2 - Abs(Last(hist).n) <= 0

\* C15: a Loop Reset leaves next_index = 1, the input at the first packet of
\* the source and, for an in-memory source, the byte-stream cursor at offset
\* 0; a second Loop Reset right after one changes nothing.
C15_LoopReset ==
  [][LoopResetOnly =>
       /\ index' = 1
       /\ pos' = 0
       /\ input.kind = "Raw" => stream'.offset = 0
       /\ AfterLoopReset => UNCHANGED <<index, buffer, pos, held, stream>>]_vars

\* a step that made the engine call the read callback
ReadsMade ==
  /\ phase = "none" \/ CallReturns
  /\ reads' # <<>>

C17_EndOfDataSignal ==
  \A i \in 1..Len(reads) :
     reads[i].offset = stream.length => reads[i].copied = 0 /\ reads[i].ret < 0

\* the packets the engine delivered during a step that made no Loop Reset
PacketsRead == SubSeq(input.packets, pos + 1, pos')

\* C18: packets of other streams are discarded: over a call without Loop
\* Reset, the frames that entered the codec or were counted by next_index are
\* those of the packets of the selected stream read by the call, and a call
\* that read packets of other streams only leaves next_index, the frame
\* buffer and the codec as they were and has skipped no frame.
C18_OtherStreamsDiscarded ==
  [][CallReturns /\ seen'.loops = 0 =>
       /\ (held' - held) + (index' - index) = FramesIn(PacketsRead, stream_id)
       /\ ( /\ PacketsRead # <<>>
            /\ \A i \in 1..Len(PacketsRead) : PacketsRead[i].stream # stream_id ) =>
            /\ index' = index
            /\ held' = held
            /\ buffer' = buffer
            /\ seen'.decoded = 0]_vars

C18_Witness ==
  /\ phase = "ready"
  /\ hist # <<>>
  /\ Last(hist).op = "skip" /\ Last(hist).first
  /\ seen.loops = 0
  /\ pos = 2
  /\ input.packets[1].stream # stream_id
  /\ input.packets[2].stream = stream_id
  /\ seen.decoded = 1

\* C21: every packet a call of next_frame or of skip has read is released
\* before the call reads the next packet and before it returns.
C21_PacketsReleased ==
  seen.unreleased = 0

\* C22: between public calls the buffered frames carry consecutive increasing
\* indices and the last of them carries next_index - 1, so that no frame
\* produced before the latest skip or Loop Reset is still waiting in the
\* buffer.
C22_BufferFollowsIndex ==
  phase = "ready" /\ buffer # <<>> =>
     /\ \A i \in 1..(Len(buffer) - 1) : buffer[i + 1].index = buffer[i].index + 1
     /\ Last(buffer).index = index - 1
====
